---- MODULE Spec2Model ----
(***************************************************************************)
(* flint.sclient.run_singularity_command: run a command inside a           *)
(* singularity container, stream its output line by line to the logger and *)
(* to an optional callback, and surface failures.                          *)
(*                                                                         *)
(* One invocation is walked through in the order of the function body:     *)
(*   Call/Recall (lines 33-52)  ->  Launch (54-63)  ->  StreamLine (65-68,  *)
(*   once per line)  ->  StreamEnd (generator exhausted)  ->  Except        *)
(*   (69-75)  ->  Return.                                                   *)
(* The container runtime (spython's Client.execute in streaming mode), the  *)
(* filesystem and the caller's callback are the environment.               *)
(***************************************************************************)
EXTENDS Integers, Sequences, FiniteSets, TLC

VARIABLES
    pc,          \* position in the function body
    image,       \* argument image
    command,     \* argument command
    bind_dirs,   \* argument bind_dirs
    cb,          \* argument stream_callback_func (its behaviour)
    bind,        \* local variable bind
    rt,          \* behaviour of the child process of this invocation
    pos,         \* lines of `output` consumed so far
    exitStatus,  \* exit status of the child once observed, NotExited before
    launched,    \* the calls of sclient.execute made by this invocation
    trace,       \* log entries and callback calls of this invocation, in order
    exc,         \* the CalledProcessError caught by the except clause
    threw,       \* a callback call raised
    outcome,     \* how the invocation ended
    raised,      \* the exception propagated to the caller
    prev         \* the caller's record of the invocation it is repeating

vars == <<pc, image, command, bind_dirs, cb, bind, rt, pos, exitStatus,
          launched, trace, exc, threw, outcome, raised, prev>>

---------------------------------------------------------------------------
(* Bounds *)

\* longest output the child process emits, in lines
MaxLines == 2

\* longest bind_dirs collection
MaxBinds == 2

---------------------------------------------------------------------------
(* Values *)

Range(s) == {s[i] : i \in 1..Len(s)}

\* Optional[...]: None, or a value
None == [some |-> FALSE, text |-> <<>>]

Some(t) == [some |-> TRUE, text |-> t]

\* exit status of a child that has not been waited for
NotExited == -1

---------------------------------------------------------------------------
(* The filesystem *)

Images == {"test.sif", "missing.sif"}

ExistingFiles == {"test.sif"}

\* Path.resolve(strict=True).as_posix() of an existing image
ResolveImage(img) == IF img = "test.sif" THEN "/work/test.sif" ELSE img

\* host paths a caller may bind: an absolute directory, a symlink to it,
\* and a path relative to the working directory /work
Paths == {"/data", "/link", "scratch"}

\* Path.absolute(): prefix a relative path with the working directory
Absolute(p) == IF p = "scratch" THEN "/work/scratch" ELSE p

\* Path.resolve(): follow symlinks
Resolve(p) == IF p = "/link" THEN "/data" ELSE p

---------------------------------------------------------------------------
(* Arguments *)

Commands == {"echo hello", "false"}

\* str.split()
Split(cmd) == IF cmd = "echo hello" THEN <<"echo", "hello">> ELSE <<cmd>>

\* bind_dirs: None, a single Path, or a collection of Paths
BindDirs ==
    {[kind |-> "none", paths |-> <<>>]}
    \cup {[kind |-> "path", paths |-> <<p>>] : p \in Paths}
    \cup UNION {{[kind |-> "list", paths |-> s] : s \in [1..n -> Paths]} : n \in 0..MaxBinds}

\* truth value of bind_dirs: a Path is always true, a collection when non-empty
Truthy(bd) == bd.kind = "path" \/ (bd.kind = "list" /\ Len(bd.paths) > 0)

\* the callback: absent, one that returns, one that raises an ordinary error
\* on some line, one that raises CalledProcessError on some line
Callbacks == {"none", "returns", "raises", "raisesCPE"}

---------------------------------------------------------------------------
(* Output lines *)

Whitespace == {" ", "\n", "\t"}

LineOk == <<"o", "k", "\n">>

LineBad == <<"n", "o", " ", "\n">>

OutputLines == {LineOk, LineBad}

\* str.rstrip()
RECURSIVE Rstrip(_)
Rstrip(s) ==
    IF s = <<>> THEN s
    ELSE IF s[Len(s)] \in Whitespace THEN Rstrip(SubSeq(s, 1, Len(s) - 1))
    ELSE s

\* the line a raising callback raises on
CallbackRaisesOn(f, line) == f \in {"raises", "raisesCPE"} /\ line = LineBad

---------------------------------------------------------------------------
(* The container runtime *)

ExitCodes == {0, 1}

Scripts == UNION {[1..n -> OutputLines] : n \in 0..MaxLines}

\* what the child does: the lines it emits, its exit status, and whether the
\* CalledProcessError the runtime raises carries the captured output
Runtimes ==
    {[lines |-> l, exit |-> e, carries |-> c] :
        l \in Scripts, e \in ExitCodes, c \in BOOLEAN}

Unset == [lines |-> <<>>, exit |-> NotExited, carries |-> FALSE]

NoExc == [type |-> "none", returncode |-> 0, cmd |-> <<>>, stdout |-> None, stderr |-> None]

\* the CalledProcessError raised by the output generator when the child
\* exits non-zero
RuntimeError(r, argv) ==
    [type |-> "CalledProcessError", returncode |-> r.exit, cmd |-> argv,
     stdout |-> IF r.carries THEN Some(r.lines) ELSE None,
     stderr |-> IF r.carries THEN Some(<<>>) ELSE None]

\* the CalledProcessError a callback raises
CallbackError ==
    [type |-> "CalledProcessError", returncode |-> 2, cmd |-> <<"callback">>,
     stdout |-> None, stderr |-> None]

---------------------------------------------------------------------------
(* Events of an invocation *)

LogEv(level, kind, line, val) ==
    [ev |-> "log", level |-> level, kind |-> kind, line |-> line, val |-> val]

CbEv(line) ==
    [ev |-> "cb", level |-> "-", kind |-> "callback", line |-> line, val |-> None]

IsLineLog(e) == e.ev = "log" /\ e.kind = "line"

IsCb(e) == e.ev = "cb"

Lines(events) == [i \in 1..Len(events) |-> events[i].line]

\* the output lines written to the logging sink
Logged(tr) == Lines(SelectSeq(tr, IsLineLog))

\* the lines the callback was called with
Heard(tr) == Lines(SelectSeq(tr, IsCb))

---------------------------------------------------------------------------
(* The body of run_singularity_command *)

\* the check of line 33 left out
ExistsUnchecked(img) == TRUE

\* image.exists()
Exists(img) == img \in ExistingFiles

\* the local variable bind: never assigned, None, or a list of strings
Unbound == [state |-> "unbound", list |-> <<>>]

BindNone == [state |-> "none", list |-> <<>>]

BindList(l) == [state |-> "list", list |-> l]

\* str(p.absolute().resolve())
BindString(p) == Resolve(Absolute(p))

\* the lists a set may be turned into by list(): its elements in any order
Orderings(S) == {s \in [1..Cardinality(S) -> S] : Range(s) = S}

\* the bind list built without set(): one entry per input path
BindArgsNoSet(bd) ==
    IF Len(bd.paths) > 0
    THEN {BindList([i \in 1..Len(bd.paths) |-> BindString(bd.paths[i])])}
    ELSE {BindNone}

\* list(set([str(p.absolute().resolve()) for p in bind_dirs])) if
\* len(bind_dirs) > 0 else None: the values the expression may yield
BindArgs(bd) ==
    IF Len(bd.paths) > 0
    THEN {BindList(l) : l \in Orderings({BindString(p) : p \in Range(bd.paths)})}
    ELSE {BindNone}

\* the two start-of-run messages
StartEvents ==
    <<LogEv("info", "start", <<>>, None), LogEv("info", "host", <<>>, None)>>

\* logger.debug(f"Constructed singularity bindings: {bind_str}"): bind_str
\* is still None
BindEvents == <<LogEv("debug", "bindings", <<>>, None)>>

\* the callback given the stripped line instead of the raw one
LineEventsStripped(line, f) ==
    <<LogEv("info", "line", Rstrip(line), None)>>
    \o (IF f # "none" THEN <<CbEv(Rstrip(line))>> ELSE <<>>)

\* the callback called before the line is logged
LineEventsCallbackFirst(line, f) ==
    (IF f # "none" THEN <<CbEv(line)>> ELSE <<>>)
    \o <<LogEv("info", "line", Rstrip(line), None)>>

\* the line logged only when there is no callback to take it
LineEventsEither(line, f) ==
    IF f # "none" THEN <<CbEv(line)>> ELSE <<LogEv("info", "line", Rstrip(line), None)>>

\* one iteration of the loop over the output
LineEvents(line, f) ==
    <<LogEv("info", "line", Rstrip(line), None)>>
    \o (IF f # "none" THEN <<CbEv(line)>> ELSE <<>>)

\* an except clause that logs nothing
ExceptEventsSilent(e) == <<>>

\* the messages of the except clause
ExceptEvents(e) ==
    <<LogEv("error", "failed", <<>>, None),
      LogEv("error", "stdout", <<>>, e.stdout),
      LogEv("error", "stderr", <<>>, e.stderr),
      LogEv("error", "exc", <<>>, None)>>

\* a new CalledProcessError raised in place of the caught one
RaiseFresh(e) == [e EXCEPT !.stdout = None, !.stderr = None]

\* raise e
Reraise(e) == e

\* lines 33-52: the image check, the start-of-run messages, the bind list
Enter(img, cmd, bd, f, b) ==
    /\ pc = "idle"
    /\ image' = img
    /\ command' = cmd
    /\ bind_dirs' = bd
    /\ cb' = f
    /\ IF ~Exists(img)
       THEN /\ pc' = "done"
            /\ outcome' = "FileNotFoundError"
            /\ raised' = [NoExc EXCEPT !.type = "FileNotFoundError"]
            /\ bind' = Unbound
            /\ UNCHANGED trace
       ELSE /\ pc' = "launch"
            /\ IF Truthy(bd)
               THEN /\ bind' = b
                    /\ trace' = trace \o StartEvents \o BindEvents
               ELSE /\ bind' = Unbound
                    /\ trace' = trace \o StartEvents
            /\ UNCHANGED <<outcome, raised>>
    /\ UNCHANGED <<pos, exitStatus, launched, exc, threw>>

\* the values line 46 may assign to bind in a call that reaches it
BindChoices(img, bd) == IF Exists(img) /\ Truthy(bd) THEN BindArgs(bd) ELSE {Unbound}

\* no call is being repeated
NoPrev ==
    [image |-> "none", command |-> "", bind_dirs |-> [kind |-> "none", paths |-> <<>>],
     cb |-> "none", rt |-> Unset, exitStatus |-> NotExited, threw |-> FALSE,
     outcome |-> "none", logged |-> <<>>, heard |-> <<>>]

\* a call with any arguments
Call ==
    \E img \in Images, cmd \in Commands, bd \in BindDirs, f \in Callbacks :
        \E b \in BindChoices(img, bd) :
            /\ prev = NoPrev
            /\ Enter(img, cmd, bd, f, b)
            /\ rt' = Unset
            /\ UNCHANGED prev

\* the caller repeats its previous call: the same image, command and binds,
\* against a runtime that behaves the same, with any callback
Recall ==
    \E f \in Callbacks :
        \E b \in BindChoices(prev.image, prev.bind_dirs) :
            /\ prev # NoPrev
            /\ Enter(prev.image, prev.command, prev.bind_dirs, f, b)
            /\ rt' = prev.rt
            /\ UNCHANGED prev

\* the caller drops its record of the previous call
Forget ==
    /\ pc = "idle"
    /\ prev # NoPrev
    /\ prev' = NoPrev
    /\ UNCHANGED <<pc, image, command, bind_dirs, cb, bind, rt, pos, exitStatus,
                   launched, trace, exc, threw, outcome, raised>>

\* lines 54-63: the arguments of sclient.execute are evaluated, then the
\* runtime is started; it hands back a generator over the child's output
Launch ==
    /\ pc = "launch"
    /\ IF bind.state = "unbound"
       THEN /\ pc' = "done"
            /\ outcome' = "UnboundLocalError"
            /\ raised' = [NoExc EXCEPT !.type = "UnboundLocalError"]
            /\ UNCHANGED <<rt, launched>>
       ELSE /\ \E r \in Runtimes :
                 /\ r.exit = 0 => ~r.carries
                 /\ rt = Unset \/ rt = r
                 /\ rt' = r
            /\ launched' = Append(launched,
                    [image |-> ResolveImage(image), command |-> Split(command), bind |-> bind])
            /\ pc' = "stream"
            /\ UNCHANGED <<outcome, raised>>
    /\ pos' = 0
    /\ UNCHANGED <<image, command, bind_dirs, cb, bind, exitStatus, trace, exc, threw, prev>>

\* lines 65-68: the next line of output is logged and given to the callback
StreamLine ==
    /\ pc = "stream"
    /\ pos < Len(rt.lines)
    /\ pos' = pos + 1
    /\ trace' = trace \o LineEvents(rt.lines[pos + 1], cb)
    /\ IF CallbackRaisesOn(cb, rt.lines[pos + 1])
       THEN /\ threw' = TRUE
            /\ IF cb = "raisesCPE"
               THEN /\ exc' = CallbackError
                    /\ pc' = "except"
                    /\ UNCHANGED <<outcome, raised>>
               ELSE /\ pc' = "done"
                    /\ outcome' = "RuntimeError"
                    /\ raised' = [NoExc EXCEPT !.type = "RuntimeError"]
                    /\ UNCHANGED exc
       ELSE UNCHANGED <<pc, exc, threw, outcome, raised>>
    /\ UNCHANGED <<image, command, bind_dirs, cb, bind, rt, exitStatus, launched, prev>>

\* a failed command is run a second time
StreamEndRetry ==
    /\ pc = "stream"
    /\ pos = Len(rt.lines)
    /\ IF rt.exit # 0 /\ Len(launched) < 2
       THEN /\ pc' = "launch"
            /\ UNCHANGED <<exitStatus, exc, outcome>>
       ELSE /\ exitStatus' = rt.exit
            /\ IF rt.exit = 0
               THEN /\ pc' = "done"
                    /\ outcome' = "success"
                    /\ UNCHANGED exc
               ELSE /\ pc' = "except"
                    /\ exc' = RuntimeError(rt, launched[Len(launched)].command)
                    /\ UNCHANGED outcome
    /\ UNCHANGED <<image, command, bind_dirs, cb, bind, rt, pos, launched, trace, threw, raised, prev>>

\* the output is exhausted: the child is waited for; the loop ends, or the
\* generator raises CalledProcessError
StreamEnd ==
    /\ pc = "stream"
    /\ pos = Len(rt.lines)
    /\ exitStatus' = rt.exit
    /\ IF rt.exit = 0
       THEN /\ pc' = "done"
            /\ outcome' = "success"
            /\ UNCHANGED exc
       ELSE /\ pc' = "except"
            /\ exc' = RuntimeError(rt, launched[Len(launched)].command)
            /\ UNCHANGED outcome
    /\ UNCHANGED <<image, command, bind_dirs, cb, bind, rt, pos, launched, trace, threw, raised, prev>>

\* lines 69-75: the failure is logged and raised again
Except ==
    /\ pc = "except"
    /\ trace' = trace \o ExceptEvents(exc)
    /\ outcome' = "CalledProcessError"
    /\ raised' = Reraise(exc)
    /\ pc' = "done"
    /\ UNCHANGED <<image, command, bind_dirs, cb, bind, rt, pos, exitStatus, launched, exc, threw, prev>>

\* the log of the invocation kept for the next one
ReturnKeepingLog ==
    /\ pc = "done"
    /\ prev' = [image |-> image, command |-> command, bind_dirs |-> bind_dirs,
                cb |-> cb, rt |-> rt, exitStatus |-> exitStatus, threw |-> threw,
                outcome |-> outcome, logged |-> Logged(trace), heard |-> Heard(trace)]
    /\ pc' = "idle"
    /\ image' = "none"
    /\ command' = ""
    /\ bind_dirs' = [kind |-> "none", paths |-> <<>>]
    /\ cb' = "none"
    /\ bind' = Unbound
    /\ rt' = Unset
    /\ pos' = 0
    /\ exitStatus' = NotExited
    /\ launched' = <<>>
    /\ UNCHANGED trace
    /\ exc' = NoExc
    /\ threw' = FALSE
    /\ outcome' = "none"
    /\ raised' = NoExc

\* the invocation is over: its locals are gone, the caller keeps what it saw
Return ==
    /\ pc = "done"
    /\ prev' = [image |-> image, command |-> command, bind_dirs |-> bind_dirs,
                cb |-> cb, rt |-> rt, exitStatus |-> exitStatus, threw |-> threw,
                outcome |-> outcome, logged |-> Logged(trace), heard |-> Heard(trace)]
    /\ pc' = "idle"
    /\ image' = "none"
    /\ command' = ""
    /\ bind_dirs' = [kind |-> "none", paths |-> <<>>]
    /\ cb' = "none"
    /\ bind' = Unbound
    /\ rt' = Unset
    /\ pos' = 0
    /\ exitStatus' = NotExited
    /\ launched' = <<>>
    /\ trace' = <<>>
    /\ exc' = NoExc
    /\ threw' = FALSE
    /\ outcome' = "none"
    /\ raised' = NoExc

Init ==
    /\ pc = "idle"
    /\ image = "none"
    /\ command = ""
    /\ bind_dirs = [kind |-> "none", paths |-> <<>>]
    /\ cb = "none"
    /\ bind = Unbound
    /\ rt = Unset
    /\ pos = 0
    /\ exitStatus = NotExited
    /\ launched = <<>>
    /\ trace = <<>>
    /\ exc = NoExc
    /\ threw = FALSE
    /\ outcome = "none"
    /\ raised = NoExc
    /\ prev = NoPrev

Next ==
    \/ Call
    \/ Recall
    \/ Forget
    \/ Launch
    \/ StreamLine
    \/ StreamEnd
    \/ Except
    \/ Return

Spec == Init /\ [][Next]_vars

---------------------------------------------------------------------------
(* Properties *)

Stripped(lines) == [i \in 1..Len(lines) |-> Rstrip(lines[i])]

NoDuplicates(l) == \A a, b \in 1..Len(l) : l[a] = l[b] => a = b

ErrorLogged(tr) == \E i \in 1..Len(tr) : tr[i].ev = "log" /\ tr[i].level = "error"

\* number of entries among the first i of tr that satisfy Test
CountUpTo(tr, i, Test(_)) == Cardinality({j \in 1..i : Test(tr[j])})

\* C1: a call with an image that does not exist ends at once with
\* FileNotFoundError: sclient.execute is never called and no start-of-run
\* message is logged.
C1_MissingImageFailsFirst ==
    (pc # "idle" /\ image \notin ExistingFiles) =>
        /\ pc = "done"
        /\ outcome = "FileNotFoundError"
        /\ launched = <<>>
        /\ \A i \in 1..Len(trace) : trace[i].kind \notin {"start", "host"}

C1_Witness ==
    pc = "done" /\ image = "missing.sif" /\ outcome = "FileNotFoundError"

\* C2: with an existing image and bind_dirs None or empty, the call reaches
\* sclient.execute, passes bind = None, and succeeds when the command exits 0.
C2_NoBindsReachLaunch ==
    (pc = "done" /\ image \in ExistingFiles /\ ~Truthy(bind_dirs)) =>
        /\ outcome # "UnboundLocalError"
        /\ Len(launched) = 1
        /\ launched[1].bind = BindNone

\* C3: for non-empty bind_dirs the bind list given to sclient.execute holds
\* the canonical (absolute, symlink-resolved) form of every input path once,
\* and nothing else.
C3_BindListCanonicalOnce ==
    \A i \in 1..Len(launched) :
        Truthy(bind_dirs) =>
            /\ launched[i].bind.state = "list"
            /\ NoDuplicates(launched[i].bind.list)
            /\ Range(launched[i].bind.list)
                 = {Resolve(Absolute(p)) : p \in Range(bind_dirs.paths)}

C3_Witness ==
    /\ Len(launched) = 1
    /\ bind_dirs.paths = <<"/data", "/link">>
    /\ launched[1].bind.list = <<"/data">>

\* C4: when the command has exited 0 and a callback was supplied, the call
\* succeeds and the callback has been given exactly the lines the runtime
\* emitted, each once, in emission order.
C4_CallbackHearsEveryLine ==
    (exitStatus = 0 /\ cb # "none") =>
        /\ pc = "done"
        /\ outcome = "success"
        /\ Heard(trace) = rt.lines

C4_Witness ==
    /\ exitStatus = 0
    /\ cb = "returns"
    /\ rt.lines = <<LineBad, LineOk>>
    /\ outcome = "success"

\* C5 as stated: the callback is called with a line before that line is
\* logged, that is, at each callback call the logger is one line behind.
C5_CallbackBeforeLog ==
    \A i \in 1..Len(trace) :
        IsCb(trace[i]) => CountUpTo(trace, i, IsLineLog) < CountUpTo(trace, i, IsCb)

\* C5 amended: each line is logged (stripped) first and given to the
\* callback (raw) directly afterwards.
C5_LogBeforeCallback ==
    \A i \in 1..Len(trace) :
        IsCb(trace[i]) =>
            /\ i > 1
            /\ IsLineLog(trace[i - 1])
            /\ trace[i - 1].line = Rstrip(trace[i].line)
            /\ CountUpTo(trace, i, IsLineLog) = CountUpTo(trace, i, IsCb)

C5_Witness ==
    /\ cb = "returns"
    /\ Heard(trace) = <<LineOk, LineBad>>

\* C6 as stated: when the command has exited non-zero the call fails with a
\* CalledProcessError whose stdout and stderr together are the output the
\* runtime produced during the run (an absent stdout or stderr counting as
\* empty text).
C6_ErrorCarriesOutput ==
    (pc = "done" /\ exitStatus > 0) =>
        /\ outcome = "CalledProcessError"
        /\ raised.stdout.text \o raised.stderr.text = rt.lines

\* C6 amended: when the command has exited non-zero the call fails with the
\* very CalledProcessError the runtime raised: its command, return code,
\* stdout and stderr are untouched, whether or not the runtime filled them.
C6_ErrorPassedThrough ==
    (pc = "done" /\ exitStatus > 0) =>
        /\ outcome = "CalledProcessError"
        /\ raised.type = "CalledProcessError"
        /\ raised.returncode = rt.exit
        /\ raised.cmd = Split(command)
        /\ raised.stdout = (IF rt.carries THEN Some(rt.lines) ELSE None)
        /\ raised.stderr = (IF rt.carries THEN Some(<<>>) ELSE None)

C6_Witness ==
    /\ pc = "done"
    /\ exitStatus = 1
    /\ rt.carries
    /\ rt.lines = <<LineOk, LineBad>>
    /\ raised.stdout = Some(rt.lines)

C8_EveryFailureLogged ==
    (pc = "done" /\ outcome \in {"FileNotFoundError", "CalledProcessError"}) =>
        ErrorLogged(trace)

\* C8 amended: a CalledProcessError is logged at error level, with its stdout
\* and stderr, before it is propagated; the image-not-found failure is
\* propagated with no log entry at all.
C8_ExecutionFailureLogged ==
    /\ (pc = "done" /\ outcome = "CalledProcessError") =>
          /\ \E i \in 1..Len(trace) :
                trace[i] = LogEv("error", "failed", <<>>, None)
          /\ \E i \in 1..Len(trace) :
                trace[i] = LogEv("error", "stdout", <<>>, raised.stdout)
          /\ \E i \in 1..Len(trace) :
                trace[i] = LogEv("error", "stderr", <<>>, raised.stderr)
    /\ (pc = "done" /\ outcome = "FileNotFoundError") => trace = <<>>

C8_Witness ==
    /\ pc = "done"
    /\ outcome = "CalledProcessError"
    /\ exitStatus = 1
    /\ ErrorLogged(trace)

\* C9: a call repeated with identical arguments, callback included, against
\* a runtime that behaves the same ends the same way and logs and hands to
\* the callback the same lines; when the command exits 0, both calls are
\* successes, each having launched the runtime once.
C9_RepeatedCallSameResult ==
    (pc = "done" /\ prev # NoPrev /\ cb = prev.cb) =>
        /\ outcome = prev.outcome
        /\ exitStatus = prev.exitStatus
        /\ Logged(trace) = prev.logged
        /\ Heard(trace) = prev.heard
        /\ prev.exitStatus = 0 =>
              (prev.outcome = "success" /\ outcome = "success" /\ Len(launched) = 1)

C9_Witness ==
    /\ pc = "done"
    /\ prev # NoPrev
    /\ cb = "returns"
    /\ prev.cb = "returns"
    /\ prev.exitStatus = 0
    /\ outcome = "success"
    /\ Heard(trace) = <<LineOk, LineOk>>

\* C10: once the command has exited non-zero, sclient.execute has been called
\* exactly once, every emitted line has been logged and given to the
\* callback in emission order, and the error-level messages come after all
\* of them; the call then ends with CalledProcessError.
C10_LinesBeforeFailure ==
    exitStatus > 0 =>
        /\ Len(launched) = 1
        /\ Logged(trace) = Stripped(rt.lines)
        /\ cb # "none" => Heard(trace) = rt.lines
        /\ \A i, j \in 1..Len(trace) :
              (trace[i].level = "error" /\ (IsLineLog(trace[j]) \/ IsCb(trace[j]))) => j < i
        /\ pc \in {"except", "done"}
        /\ pc = "done" => (outcome = "CalledProcessError" /\ ErrorLogged(trace))

C10_Witness ==
    /\ pc = "done"
    /\ exitStatus = 1
    /\ cb = "returns"
    /\ Len(rt.lines) = 2
    /\ Heard(trace) = rt.lines
    /\ ErrorLogged(trace)

====
